---- MODULE Spec2Model ----
(***************************************************************************)
(* Model of rain_daily_pr.py: a one-shot script that reads two credentials *)
(* from the environment, fetches an Open-Meteo forecast for each of two    *)
(* fixed cities, summarises the target day of each payload and posts the   *)
(* composed message to Telegram.                                           *)
(*                                                                         *)
(* Encoding of Python values                                               *)
(*   str used for matching  : a sequence of one-character strings          *)
(*   str that is output     : a sequence of tokens (string pieces)         *)
(*   date "YYYY-MM-DD"      : its day number (an integer)                  *)
(*   "YYYY-MM-DDTHH:MM"     : [date |-> day number, hh |-> <<d1, d2>>],    *)
(*                            the two digits of HH                         *)
(*   JSON number / null     : <<v>> / <<>>                                 *)
(*   dict                   : a record whose DOMAIN is the keys present    *)
(*   a call's outcome       : Return(v) or Raise(exception name)           *)
(***************************************************************************)
EXTENDS Integers, Sequences, FiniteSets, TLC

VARIABLES
    pc,         \* position of the process in the script
    environ,    \* os.environ: TG_BOT_TOKEN and TG_CHAT_ID
    sys_argv,   \* sys.argv
    now,        \* the wall clock in America/Sao_Paulo, in hours
    BOT_TOKEN,  \* module global, line 16
    CHAT_ID,    \* module global, line 17
    mode,       \* run_forecast's parameter and local
    target,     \* run_forecast's local
    title,      \* run_forecast's local
    lines,      \* run_forecast's local: the accumulating message
    city,       \* index into CITIES of the loop at line 145
    data,       \* run_forecast's local: the payload of the current city
    exc,        \* the exception that ended the process, "None" while none
    calls,      \* history: every call of fetch_open_meteo, summarize_day, send_telegram
    fn,         \* function under test in a function harness, "none" in a process run
    args,       \* the harness call's arguments
    ret         \* the harness call's result

procVars == <<pc, environ, sys_argv, now, BOT_TOKEN, CHAT_ID, mode, target,
              title, lines, city, data, exc, calls>>
fnVars == <<fn, args, ret>>
vars == <<procVars, fnVars>>

-----------------------------------------------------------------------------
(* Python values *)

None == <<>>
JNull == <<>>
JNum(v) == <<v>>
HasKey(d, k) == k \in DOMAIN d

Return(v) == [raised |-> FALSE, exc |-> "None", value |-> v]
Raise(e) == [raised |-> TRUE, exc |-> e, value |-> <<>>]

\* int(x) of a JSON number
PyInt(j) == j[1]

\* int(s) of a two-digit string
IntOfDigits(hh) == 10 * hh[1] + hh[2]

\* x in list
Contains(list, x) == \E i \in 1..Len(list) : list[i] = x

\* list.index(x), 1-based: the first position holding x
IndexOf(list, x) == CHOOSE i \in 1..Len(list) :
                        /\ list[i] = x
                        /\ \A j \in 1..(i - 1) : list[j] # x

Min(a, b) == IF a <= b THEN a ELSE b

SeqsUpTo(S, n) == UNION {[1..k -> S] : k \in 0..n}

-----------------------------------------------------------------------------
(* Module constants, lines 8-24 *)

CITIES == << [name |-> "Curitiba", lat |-> "-25.4284", lon |-> "-49.2733"],
             [name |-> "Araucaria", lat |-> "-25.5874", lon |-> "-49.4050"] >>

SUNNY_CODES == {0, 1}
CLOUDY_CODES == {2, 3, 45, 48}

\* "forecast_days": 2 of the request: the daily series covers two days
forecast_days == 2

-----------------------------------------------------------------------------
(* Clock helpers, lines 26-36.  The clock counts hours; Sao Paulo keeps no   *)
(* daylight saving time, so a day is 24 hours.                               *)

DateOf(ts) == ts \div 24

now_br_str(ts) == <<ToString(ts \div 24), " ", ToString(ts % 24), ":00">>

today_str(ts) == DateOf(ts)

tomorrow_str(ts) == DateOf(ts + 24)

-----------------------------------------------------------------------------
(* period_from_hour, lines 38-45 *)

period_from_hour_open(h) ==
    IF 0 <= h /\ h < 5 THEN "madrugada"
    ELSE IF 6 <= h /\ h < 11 THEN "manha"
    ELSE IF 12 <= h /\ h < 17 THEN "tarde"
    ELSE "noite"

period_from_hour(h) ==
    IF 0 <= h /\ h <= 5 THEN "madrugada"
    ELSE IF 6 <= h /\ h <= 11 THEN "manha"
    ELSE IF 12 <= h /\ h <= 17 THEN "tarde"
    ELSE "noite"

-----------------------------------------------------------------------------
(* summarize_day, lines 73-127 *)

UNAVAILABLE == <<"indisponivel">>
SUNNY == <<"Dia <b>ensolarado</b>">>
CLOUDY == <<"Dia <b>nublado</b>">>
RAIN_HEAD == "Possibilidade de chuva <b>"

\* lines 97-103: the (hour, prob) pairs of the target date among the first n
\* zipped pairs, in series order
RECURSIVE DayProbs(_, _, _, _)
DayProbs(times, probs, target_date, n) ==
    IF n = 0 THEN <<>>
    ELSE LET rest == DayProbs(times, probs, target_date, n - 1)
         IN IF times[n].date = target_date
            THEN Append(rest, <<IntOfDigits(times[n].hh), PyInt(probs[n])>>)
            ELSE rest

\* line 103: int(p) raises TypeError on a null probability of the target date
NullOnDay(times, probs, target_date, n) ==
    \E k \in 1..n : times[k].date = target_date /\ probs[k] = JNull

\* line 107, max(day_probs, key=lambda x: x[1]): the running best is replaced
\* only by a strictly greater key
RECURSIVE PyMax(_, _)
PyMax(s, n) ==
    IF n = 1 THEN s[1]
    ELSE LET best == PyMax(s, n - 1)
         IN IF s[n][2] > best[2] THEN s[n] ELSE best

\* variant replacing the running best on an equal key too: the last maximum
RECURSIVE PyMaxGe(_, _)
PyMaxGe(s, n) ==
    IF n = 1 THEN s[1]
    ELSE LET best == PyMaxGe(s, n - 1)
         IN IF s[n][2] >= best[2] THEN s[n] ELSE best

PeakOf_last(day_probs) == PyMaxGe(day_probs, Len(day_probs))

\* line 107: (peak_hour, peak_prob)
PeakOf(day_probs) == PyMax(day_probs, Len(day_probs))

\* line 112
RainRule_ge(ppmax) == ppmax >= 60

RainRule(ppmax) == ppmax > 60

\* lines 111-127
Classify(wc, ppmax, peak_hour) ==
    IF RainRule(ppmax)
    THEN IF peak_hour = None
         THEN <<RAIN_HEAD, ToString(ppmax), "%</b>">>
         ELSE <<RAIN_HEAD, ToString(ppmax), "%</b>", " (",
                period_from_hour(peak_hour[1]), ")">>
    ELSE IF wc \in SUNNY_CODES THEN SUNNY
    ELSE IF wc \in CLOUDY_CODES THEN CLOUDY
    ELSE CLOUDY

\* lines 92-127
SummarizeHourly(data_, target_date, wc, ppmax) ==
    IF ~HasKey(data_, "hourly") THEN Raise("KeyError")
    ELSE IF ~HasKey(data_.hourly, "time") THEN Raise("KeyError")
    ELSE IF ~HasKey(data_.hourly, "precipitation_probability") THEN Raise("KeyError")
    ELSE LET times == data_.hourly.time
             probs == data_.hourly.precipitation_probability
             n == Min(Len(times), Len(probs))
         IN IF NullOnDay(times, probs, target_date, n) THEN Raise("TypeError")
            ELSE LET day_probs == DayProbs(times, probs, target_date, n)
                     peak_hour == IF day_probs # <<>>
                                  THEN <<PeakOf(day_probs)[1]>>
                                  ELSE None
                 IN Return(Classify(wc, ppmax, peak_hour))

\* lines 80-90: the daily arrays are read before the date is looked up
DailyKeys == {"time", "weathercode", "precipitation_probability_max"}

SummarizeDaily(data_, target_date) ==
    IF ~HasKey(data_, "daily") THEN Raise("KeyError")
    ELSE IF \E k \in DailyKeys : ~HasKey(data_.daily, k) THEN Raise("KeyError")
    ELSE LET daily_dates == data_.daily.time
             daily_wc == data_.daily.weathercode
             daily_ppmax == data_.daily.precipitation_probability_max
         IN IF ~Contains(daily_dates, target_date) THEN Return(UNAVAILABLE)
            ELSE LET idx == IndexOf(daily_dates, target_date)
                 IN IF idx > Len(daily_wc) THEN Raise("IndexError")
                    ELSE IF daily_wc[idx] = JNull THEN Raise("TypeError")
                    ELSE IF idx > Len(daily_ppmax) THEN Raise("IndexError")
                    ELSE LET wc == PyInt(daily_wc[idx])
                             ppmax == IF daily_ppmax[idx] # JNull
                                      THEN PyInt(daily_ppmax[idx])
                                      ELSE 0
                         IN SummarizeHourly(data_, target_date, wc, ppmax)

\* variant that reads the hourly arrays before the date is looked up
summarize_day_eager(data_, target_date) ==
    IF ~HasKey(data_, "hourly") THEN Raise("KeyError")
    ELSE SummarizeDaily(data_, target_date)

summarize_day(data_, target_date) == SummarizeDaily(data_, target_date)

-----------------------------------------------------------------------------
(* Function harnesses: a pure function applied to inputs drawn from bounded  *)
(* sets.  The process does not run: its variables rest.                      *)

NotCalled == [raised |-> FALSE, exc |-> "NotCalled", value |-> <<>>]

ProcRests ==
    /\ pc = "harness"
    /\ environ = <<>> /\ sys_argv = <<>> /\ now = 0
    /\ BOT_TOKEN = None /\ CHAT_ID = None
    /\ mode = <<>> /\ target = 0 /\ title = "" /\ lines = <<>>
    /\ city = 0 /\ data = <<>> /\ exc = "None" /\ calls = <<>>

\* hours that a two-digit HH can spell
MaxHour == 99

InitPeriod ==
    /\ ProcRests
    /\ fn = "period_from_hour"
    /\ args \in {<<h>> : h \in 0..MaxHour}
    /\ ret = NotCalled

CallPeriod ==
    /\ fn = "period_from_hour" /\ ret = NotCalled
    /\ ret' = Return(period_from_hour(args[1]))
    /\ UNCHANGED <<procVars, fn, args>>

SpecPeriod == InitPeriod /\ [][CallPeriod]_vars

(* Payloads.  Dates 1 and 2 are the two days of the forecast window. *)
Dates == {1, 2}
Codes == SUNNY_CODES \cup CLOUDY_CODES \cup {61}
JCodes == {JNum(c) : c \in Codes} \cup {JNull}
DailyPcts == {JNull, JNum(10), JNum(60), JNum(61), JNum(75), JNum(100)}
HourlyPcts == {JNum(40), JNum(80)}
HourDigits == {<<0, 5>>, <<1, 4>>, <<2, 3>>}

\* the parallel arrays of a daily series given as (date, wc, ppmax) entries
DailyOf(e) ==
    [time |-> [i \in 1..Len(e) |-> e[i].date],
     weathercode |-> [i \in 1..Len(e) |-> e[i].wc],
     precipitation_probability_max |-> [i \in 1..Len(e) |-> e[i].ppmax]]

\* the parallel arrays of an hourly series given as (t, p) entries
HourlyOf(e) ==
    [time |-> [i \in 1..Len(e) |-> e[i].t],
     precipitation_probability |-> [i \in 1..Len(e) |-> e[i].p]]

Day(d, wc, ppmax) == [date |-> d, wc |-> JNum(wc), ppmax |-> JNum(ppmax)]
Hour(d, hh, p) == [t |-> [date |-> d, hh |-> hh], p |-> JNum(p)]

\* longest hourly series of the peak-hour inputs
MaxHourly == 3

DayEntries == [date : Dates, wc : JCodes, ppmax : DailyPcts]
HourEntries == [t : [date : Dates, hh : HourDigits], p : HourlyPcts]

\* every daily series of at most forecast_days entries, with a few hourly series
ClassifyPayloads ==
    LET dailies == {DailyOf(e) : e \in SeqsUpTo(DayEntries, forecast_days)}
        hourlies == {HourlyOf(<<>>),
                     HourlyOf(<<Hour(1, <<0, 5>>, 80), Hour(2, <<1, 4>>, 40)>>),
                     HourlyOf(<<[t |-> [date |-> 1, hh |-> <<1, 4>>], p |-> JNull],
                                Hour(2, <<0, 5>>, 80)>>)}
    IN {[daily |-> d, hourly |-> h] : d \in dailies, h \in hourlies}
       \cup {[daily |-> d] : d \in dailies}

\* every hourly series of at most MaxHourly entries, with a few daily series
PeakPayloads ==
    LET dailies == {DailyOf(<<Day(1, 0, 75), Day(2, 2, 10)>>),
                    DailyOf(<<[date |-> 1, wc |-> JNum(61), ppmax |-> JNull],
                              Day(2, 3, 61)>>)}
    IN {[daily |-> d, hourly |-> HourlyOf(e)] :
            d \in dailies, e \in SeqsUpTo(HourEntries, MaxHourly)}

\* responses that lack provider fields, or whose arrays differ in length
EmptyDict == <<>>
MalformedPayloads ==
    LET daily == DailyOf(<<Day(1, 0, 75), Day(2, 2, 10)>>)
        hourly == HourlyOf(<<Hour(1, <<1, 4>>, 80), Hour(2, <<0, 5>>, 40)>>)
    IN {EmptyDict,
        [hourly |-> hourly],
        [daily |-> EmptyDict, hourly |-> hourly],
        [daily |-> [time |-> daily.time], hourly |-> hourly],
        [daily |-> daily, hourly |-> EmptyDict],
        [daily |-> daily, hourly |-> [time |-> hourly.time]],
        [daily |-> [daily EXCEPT !.weathercode = <<JNum(0)>>], hourly |-> hourly],
        [daily |-> [daily EXCEPT !.precipitation_probability_max = <<>>],
         hourly |-> hourly],
        [daily |-> daily,
         hourly |-> [hourly EXCEPT !.precipitation_probability = <<JNum(80)>>]]}

SumPayloads == ClassifyPayloads \cup PeakPayloads \cup MalformedPayloads

\* dates asked for: a day of the window, or the day after it
TargetDates == Dates \cup {3}

InitSummarize ==
    /\ ProcRests
    /\ fn = "summarize_day"
    /\ args \in {<<d, t>> : d \in SumPayloads, t \in TargetDates}
    /\ ret = NotCalled

CallSummarize ==
    /\ fn = "summarize_day" /\ ret = NotCalled
    /\ ret' = summarize_day(args[1], args[2])
    /\ UNCHANGED <<procVars, fn, args>>

SpecSummarize == InitSummarize /\ [][CallSummarize]_vars

-----------------------------------------------------------------------------
(* Strings that are matched: mode.lower().strip(), line 135 *)

UpperCase == <<"A", "B", "C", "D", "E", "F", "G", "H", "I", "J", "K", "L", "M",
               "N", "O", "P", "Q", "R", "S", "T", "U", "V", "W", "X", "Y", "Z">>
LowerCase == <<"a", "b", "c", "d", "e", "f", "g", "h", "i", "j", "k", "l", "m",
               "n", "o", "p", "q", "r", "s", "t", "u", "v", "w", "x", "y", "z">>
Whitespace == {" ", "\t", "\n", "\r"}

LowerChar(c) ==
    IF \E i \in 1..Len(UpperCase) : UpperCase[i] = c
    THEN LowerCase[CHOOSE i \in 1..Len(UpperCase) : UpperCase[i] = c]
    ELSE c

\* str.lower()
Lower(s) == [i \in 1..Len(s) |-> LowerChar(s[i])]

\* str.strip(): leading and trailing whitespace removed
RECURSIVE LStrip(_)
LStrip(s) == IF s # <<>> /\ Head(s) \in Whitespace THEN LStrip(Tail(s)) ELSE s

RECURSIVE RStrip(_)
RStrip(s) == IF s # <<>> /\ s[Len(s)] \in Whitespace
             THEN RStrip(SubSeq(s, 1, Len(s) - 1))
             ELSE s

Strip(s) == RStrip(LStrip(s))

TODAY == <<"t", "o", "d", "a", "y">>
TOMORROW == <<"t", "o", "m", "o", "r", "r", "o", "w">>

\* line 135, without the strip
NormalizeMode_lower(m) == Lower(m)

\* line 135
NormalizeMode(m) == Strip(Lower(m))

TITLE_TOMORROW == "<b>Previsao de amanha</b>"
TITLE_TODAY == "<b>Previsao de hoje</b>"

\* "\n".join(lines), line 150
NEWLINE == "\n"
RECURSIVE Join(_)
Join(ls) ==
    IF ls = <<>> THEN <<>>
    ELSE IF Len(ls) = 1 THEN ls[1]
    ELSE ls[1] \o <<NEWLINE>> \o Join(Tail(ls))

\* line 148
CityLine(name, summary) == <<"* <b>", name, "</b>: ">> \o summary

-----------------------------------------------------------------------------
(* The process: inputs *)

SCRIPT == <<"rain_daily_pr.py">>

EnvValues == {"", "123:abc"}
Environs ==
    {[TG_BOT_TOKEN |-> t, TG_CHAT_ID |-> c] : t \in EnvValues, c \in EnvValues}
    \cup {[TG_BOT_TOKEN |-> t] : t \in EnvValues}
    \cup {[TG_CHAT_ID |-> c] : c \in EnvValues}
    \cup {EmptyDict}

ArgValues ==
    {TODAY, TOMORROW,
     <<"T", "O", "M", "O", "R", "R", "O", "W">>,
     <<"T", "o", "m", "o", "r", "r", "o", "w">>,
     <<" ">> \o TOMORROW,
     TOMORROW \o <<"\n">>,
     <<"\t", "T">> \o Tail(TOMORROW) \o <<" ", " ">>,
     <<"t", "o", " ">> \o SubSeq(TOMORROW, 3, 8),
     <<"t", "o", "m", "o", "r", "o", "w">>,
     <<"a", "m", "a", "n", "h", "a">>,
     <<"T", "O", "D", "A", "Y">>,
     <<>>}

\* sys.argv: the script alone, with one argument, or with a second one
Argvs ==
    {<<SCRIPT>>}
    \cup {<<SCRIPT, a>> : a \in ArgValues}
    \cup {<<SCRIPT, TODAY, TOMORROW>>, <<SCRIPT, TOMORROW, TODAY>>}

\* 06:00 and 22:00 of day 1
Nows == {30, 46}

RunPayloads ==
    LET days == {<<0, 10>>, <<61, 75>>, <<2, 60>>}
        dailies == {DailyOf(<<Day(1, a[1], a[2]), Day(2, b[1], b[2])>>) :
                        a \in days, b \in days}
                   \cup {DailyOf(<<Day(2, 0, 75), Day(3, 2, 10)>>), DailyOf(<<>>)}
        hourlies == {HourlyOf(<<>>),
                     HourlyOf(<<Hour(1, <<0, 5>>, 40), Hour(1, <<1, 4>>, 80),
                                Hour(2, <<0, 5>>, 80), Hour(2, <<1, 4>>, 80)>>)}
    IN {[daily |-> d, hourly |-> h] : d \in dailies, h \in hourlies}
       \cup MalformedPayloads

\* requests.get(..., timeout=20) and raise_for_status(), lines 69-70
FetchErrors == {"HTTPError", "Timeout", "ConnectionError"}
\* requests.post(..., timeout=20) and raise_for_status(), lines 50-51
SendErrors == {"HTTPError", "Timeout", "ConnectionError"}

-----------------------------------------------------------------------------
(* The process: actions *)

FnRests == fn = "none" /\ args = <<>> /\ ret = NotCalled

Init ==
    /\ pc = "import"
    /\ environ \in Environs
    /\ sys_argv \in Argvs
    /\ now \in Nows
    /\ BOT_TOKEN = None /\ CHAT_ID = None
    /\ mode = <<>> /\ target = 0 /\ title = "" /\ lines = <<>>
    /\ city = 0 /\ data = EmptyDict /\ exc = "None" /\ calls = <<>>
    /\ FnRests

\* os.environ.get(k): None for a variable that is not set
EnvGet(env, k) == IF HasKey(env, k) THEN <<env[k]>> ELSE None

\* variant testing only for None
Falsy_none(v) == v = None

\* "not v" of an Optional[str]
Falsy(v) == v = None \/ v[1] = ""

\* lines 16-20
Startup ==
    /\ pc = "import"
    /\ BOT_TOKEN' = EnvGet(environ, "TG_BOT_TOKEN")
    /\ CHAT_ID' = EnvGet(environ, "TG_CHAT_ID")
    /\ IF Falsy(BOT_TOKEN') \/ Falsy(CHAT_ID')
       THEN pc' = "exit" /\ exc' = "RuntimeError"
       ELSE pc' = "main" /\ exc' = exc
    /\ UNCHANGED <<environ, sys_argv, now, mode, target, title, lines, city,
                   data, calls, fnVars>>

\* lines 152-157
main ==
    /\ pc = "main"
    /\ mode' = IF Len(sys_argv) > 1 THEN sys_argv[2] ELSE TODAY
    /\ pc' = "run_forecast"
    /\ UNCHANGED <<environ, sys_argv, now, BOT_TOKEN, CHAT_ID, target, title,
                   lines, city, data, exc, calls, fnVars>>

\* lines 135-143, and the loop's start at line 145
run_forecast ==
    /\ pc = "run_forecast"
    /\ mode' = NormalizeMode(mode)
    /\ IF mode' = TOMORROW
       THEN target' = tomorrow_str(now) /\ title' = TITLE_TOMORROW
       ELSE target' = today_str(now) /\ title' = TITLE_TODAY
    /\ lines' = << <<title', " - ">> \o now_br_str(now), <<>> >>
    /\ city' = 1
    /\ pc' = "loop"
    /\ UNCHANGED <<environ, sys_argv, now, BOT_TOKEN, CHAT_ID, data, exc,
                   calls, fnVars>>

FetchCall(i, outcome) ==
    [fn |-> "fetch_open_meteo", lat |-> CITIES[i].lat, lon |-> CITIES[i].lon,
     outcome |-> outcome]

\* line 146, fetch_open_meteo returning r.json()
FetchOk(payload) ==
    /\ pc = "loop" /\ city <= Len(CITIES)
    /\ data' = payload
    /\ calls' = Append(calls, FetchCall(city, Return(payload)))
    /\ pc' = "summarize"
    /\ UNCHANGED <<environ, sys_argv, now, BOT_TOKEN, CHAT_ID, mode, target,
                   title, lines, city, exc, fnVars>>

\* variant catching the error and going on to the next city
FetchFail_skip(e) ==
    /\ pc = "loop" /\ city <= Len(CITIES)
    /\ calls' = Append(calls, FetchCall(city, Raise(e)))
    /\ city' = city + 1
    /\ UNCHANGED <<pc, environ, sys_argv, now, BOT_TOKEN, CHAT_ID, mode, target,
                   title, lines, data, exc, fnVars>>

\* variant catching the error and writing the sentinel line
FetchFail_sentinel(e) ==
    /\ pc = "loop" /\ city <= Len(CITIES)
    /\ calls' = Append(calls, FetchCall(city, Raise(e)))
    /\ lines' = Append(lines, CityLine(CITIES[city].name, UNAVAILABLE))
    /\ exc' = e
    /\ pc' = "exit"
    /\ UNCHANGED <<environ, sys_argv, now, BOT_TOKEN, CHAT_ID, mode, target,
                   title, city, data, fnVars>>

\* line 146, fetch_open_meteo raising at line 69 or 70: nothing catches it
FetchFail(e) ==
    /\ pc = "loop" /\ city <= Len(CITIES)
    /\ calls' = Append(calls, FetchCall(city, Raise(e)))
    /\ exc' = e
    /\ pc' = "exit"
    /\ UNCHANGED <<environ, sys_argv, now, BOT_TOKEN, CHAT_ID, mode, target,
                   title, lines, city, data, fnVars>>

\* lines 147-148
Summarize ==
    /\ pc = "summarize"
    /\ LET r == summarize_day(data, target)
       IN /\ calls' = Append(calls, [fn |-> "summarize_day", data |-> data,
                                     target_date |-> target, outcome |-> r])
          /\ IF r.raised
             THEN /\ exc' = r.exc
                  /\ pc' = "exit"
                  /\ UNCHANGED <<lines, city>>
             ELSE /\ lines' = Append(lines, CityLine(CITIES[city].name, r.value))
                  /\ city' = city + 1
                  /\ pc' = "loop"
                  /\ exc' = exc
    /\ UNCHANGED <<environ, sys_argv, now, BOT_TOKEN, CHAT_ID, mode, target,
                   title, data, fnVars>>

\* line 150: send_telegram, lines 47-51; e is "None" when the POST succeeds
Send(e) ==
    /\ pc = "loop" /\ city > Len(CITIES)
    /\ calls' = Append(calls, [fn |-> "send_telegram", text |-> Join(lines),
                               token |-> BOT_TOKEN, chat_id |-> CHAT_ID,
                               outcome |-> IF e = "None" THEN Return(None)
                                           ELSE Raise(e)])
    /\ exc' = e
    /\ pc' = "exit"
    /\ UNCHANGED <<environ, sys_argv, now, BOT_TOKEN, CHAT_ID, mode, target,
                   title, lines, city, data, fnVars>>

Next ==
    \/ Startup
    \/ main
    \/ run_forecast
    \/ \E payload \in RunPayloads : FetchOk(payload)
    \/ \E e \in FetchErrors : FetchFail(e)
    \/ Summarize
    \/ \E e \in SendErrors \cup {"None"} : Send(e)

Spec == Init /\ [][Next]_vars

-----------------------------------------------------------------------------
(* Properties *)

FetchCalls == SelectSeq(calls, LAMBDA c : c.fn = "fetch_open_meteo")
SummarizeCalls == SelectSeq(calls, LAMBDA c : c.fn = "summarize_day")
SendCalls == SelectSeq(calls, LAMBDA c : c.fn = "send_telegram")

\* the position in CITIES of the location that call number i of the history fetches
LocationOf(i) == Cardinality({j \in 1..i : calls[j].fn = "fetch_open_meteo"})

FailedFetchAt(i) ==
    /\ i \in 1..Len(calls)
    /\ calls[i].fn = "fetch_open_meteo"
    /\ calls[i].outcome.raised

\* C1: once a fetch_open_meteo call fails, the process has ended with that
\* error, the failed fetch is the last call of the run (no later location is
\* fetched, nothing is summarised afterwards) and send_telegram was not called.
C1_FetchFailureAborts ==
    \A i \in 1..Len(calls) :
        FailedFetchAt(i) =>
            /\ i = Len(calls)
            /\ pc = "exit"
            /\ exc = calls[i].outcome.exc /\ exc # "None"
            /\ SendCalls = <<>>
            /\ ~ENABLED Next

\* C1 happens: the second city's fetch times out after the first city's line
\* was composed, and the partial message stays unsent.
C1_Witness ==
    /\ pc = "exit" /\ exc = "Timeout"
    /\ Len(calls) = 3 /\ FailedFetchAt(3)
    /\ Len(lines) = 3

\* C2: in a finished run whose two fetches both succeeded, send_telegram was
\* called exactly once, as the last call, with the title line, a blank line and
\* one line per city in the order of CITIES, each carrying the summary of that
\* city's own payload.
C2_OneMessagePerSuccessfulRun ==
    (/\ pc = "exit"
     /\ Len(FetchCalls) = Len(CITIES)
     /\ \A k \in 1..Len(FetchCalls) : ~FetchCalls[k].outcome.raised)
    => /\ Len(SendCalls) = 1
       /\ calls[Len(calls)].fn = "send_telegram"
       /\ SendCalls[1].text =
            Join(<< <<title, " - ">> \o now_br_str(now), <<>> >>
                 \o [k \in 1..Len(CITIES) |->
                        CityLine(CITIES[k].name,
                                 summarize_day(FetchCalls[k].outcome.value,
                                               target).value)])

\* C3: with TG_BOT_TOKEN or TG_CHAT_ID unset or empty, the process makes no
\* call of fetch_open_meteo or send_telegram, and when it has ended it has ended
\* with the configuration error.
C3_NoNetworkWithoutCredentials ==
    LET missing(k) == ~HasKey(environ, k) \/ environ[k] = ""
    IN (missing("TG_BOT_TOKEN") \/ missing("TG_CHAT_ID")) =>
            /\ calls = <<>>
            /\ pc \in {"import", "exit"}
            /\ pc = "exit" => exc = "RuntimeError"

\* C3 happens: the token is set and the chat id is set but empty, and the
\* process has ended with the configuration error.
C3_Witness ==
    /\ pc = "exit" /\ exc = "RuntimeError"
    /\ HasKey(environ, "TG_BOT_TOKEN") /\ environ["TG_BOT_TOKEN"] = "123:abc"
    /\ HasKey(environ, "TG_CHAT_ID") /\ environ["TG_CHAT_ID"] = ""
    /\ calls = <<>>

\* what a returned summary says
Category(v) ==
    IF v = UNAVAILABLE THEN "unavailable"
    ELSE IF v[1] = RAIN_HEAD THEN "rain"
    ELSE IF v = SUNNY THEN "sunny"
    ELSE IF v = CLOUDY THEN "cloudy"
    ELSE "other"

Returned == fn = "summarize_day" /\ ret # NotCalled /\ ~ret.raised

DateInDaily ==
    /\ HasKey(args[1], "daily")
    /\ HasKey(args[1].daily, "time")
    /\ Contains(args[1].daily.time, args[2])

\* the target date's weather code and max probability (null counted as 0)
TargetCode == PyInt(args[1].daily.weathercode[IndexOf(args[1].daily.time, args[2])])
TargetMax ==
    LET p == args[1].daily.precipitation_probability_max[
                 IndexOf(args[1].daily.time, args[2])]
    IN IF p = JNull THEN 0 ELSE p[1]

\* C4: when the target date is in the daily series, the summary summarize_day
\* returns is rain exactly when the day's max probability (null as 0) is 61 or
\* more, else sunny exactly when the code is 0 or 1, else cloudy.
C4_CategoryRule ==
    (Returned /\ DateInDaily) =>
        Category(ret.value) =
            IF TargetMax >= 61 THEN "rain"
            ELSE IF TargetCode \in {0, 1} THEN "sunny"
            ELSE "cloudy"

\* C4 happens: a max probability of exactly 60 with a code in neither set is
\* summarised as cloudy.
C4_Witness ==
    /\ Returned /\ DateInDaily
    /\ TargetMax = 60 /\ TargetCode = 61
    /\ ret.value = CLOUDY

\* C5: a payload whose daily arrays are present and whose dates do not hold the
\* target date is summarised as the unavailable sentinel, without an exception,
\* whatever the hourly series and the other daily arrays hold.
C5_AbsentDateIsUnavailable ==
    (/\ fn = "summarize_day" /\ ret # NotCalled
     /\ HasKey(args[1], "daily")
     /\ \A k \in DailyKeys : HasKey(args[1].daily, k)
     /\ ~Contains(args[1].daily.time, args[2]))
    => ret = Return(UNAVAILABLE)

\* C5 happens: the daily series holds dates but not the target date, the
\* payload has no hourly series at all, and the sentinel is returned.
C5_Witness ==
    /\ fn = "summarize_day" /\ ret = Return(UNAVAILABLE)
    /\ HasKey(args[1], "daily") /\ ~HasKey(args[1], "hourly")
    /\ args[1].daily.time # <<>>
    /\ args[2] = 2

\* the zipped hourly entries of the target date
OnDay ==
    {k \in 1..Min(Len(args[1].hourly.time),
                  Len(args[1].hourly.precipitation_probability)) :
        args[1].hourly.time[k].date = args[2]}
HourlyProb(k) == args[1].hourly.precipitation_probability[k][1]
HourlyHour(k) == IntOfDigits(args[1].hourly.time[k].hh)
IsMaxOnDay(k) == k \in OnDay /\ \A j \in OnDay : HourlyProb(j) <= HourlyProb(k)

\* C6: a returned rain summary carries the period of the hour of the earliest
\* entry of the target date that attains the largest hourly probability, and
\* carries no period when the hourly series has no entry on the target date.
C6_PeakIsFirstMaximum ==
    (Returned /\ Category(ret.value) = "rain") =>
        IF OnDay = {}
        THEN ret.value = <<RAIN_HEAD, ToString(TargetMax), "%</b>">>
        ELSE LET first == CHOOSE k \in OnDay :
                              /\ IsMaxOnDay(k)
                              /\ \A j \in OnDay : IsMaxOnDay(j) => k <= j
             IN ret.value = <<RAIN_HEAD, ToString(TargetMax), "%</b>", " (",
                              period_from_hour(HourlyHour(first)), ")">>

\* C6 happens: two entries of the target date tie for the maximum at hours of
\* different periods, and the summary carries the period of the earlier one.
C6_Witness ==
    /\ Returned /\ Category(ret.value) = "rain"
    /\ \E k1, k2 \in OnDay :
          /\ k1 < k2
          /\ IsMaxOnDay(k1) /\ IsMaxOnDay(k2)
          /\ \A j \in OnDay : j < k1 => ~IsMaxOnDay(j)
          /\ period_from_hour(HourlyHour(k1)) # period_from_hour(HourlyHour(k2))
          /\ ret.value[5] = period_from_hour(HourlyHour(k1))

\* C7: for every hour 0..23 period_from_hour returns one label: madrugada
\* exactly for 0..5, manha exactly for 6..11, tarde exactly for 12..17 and
\* noite exactly for 18..23.
C7_PeriodsPartitionTheDay ==
    (fn = "period_from_hour" /\ ret # NotCalled /\ args[1] \in 0..23) =>
        /\ ~ret.raised
        /\ ret.value \in {"madrugada", "manha", "tarde", "noite"}
        /\ ret.value = "madrugada" <=> args[1] \in 0..5
        /\ ret.value = "manha" <=> args[1] \in 6..11
        /\ ret.value = "tarde" <=> args[1] \in 12..17
        /\ ret.value = "noite" <=> args[1] \in 18..23

\* C7 happens: hour 17, the last of its bucket, was mapped to tarde.
C7_Witness ==
    /\ fn = "period_from_hour" /\ args[1] = 17
    /\ ret = Return("tarde")

\* C8 as written: a failed fetch leaves the summarizer uncalled for that
\* location and that location's line of the message holds the sentinel.
C8_FailedFetchGivesSentinelLine ==
    \A i \in 1..Len(calls) :
        FailedFetchAt(i) =>
            /\ Len(SummarizeCalls) < LocationOf(i)
            /\ Len(lines) >= 2 + LocationOf(i)
            /\ lines[2 + LocationOf(i)]
                 = CityLine(CITIES[LocationOf(i)].name, UNAVAILABLE)

\* C8 amended: a failed fetch leaves the summarizer uncalled for that location,
\* no line is composed for that location (the message holds the title, the
\* blank line and the lines of the earlier locations only) and nothing is sent.
C8_FailedFetchGivesNoLine ==
    \A i \in 1..Len(calls) :
        FailedFetchAt(i) =>
            /\ Len(SummarizeCalls) = LocationOf(i) - 1
            /\ Len(lines) = 2 + (LocationOf(i) - 1)
            /\ \A k \in 1..Len(lines) :
                  lines[k] # CityLine(CITIES[LocationOf(i)].name, UNAVAILABLE)
            /\ SendCalls = <<>>

\* C8 happens: the first city's fetch fails with an HTTP error and the message
\* holds the title and the blank line only.
C8_Witness ==
    /\ pc = "exit" /\ exc = "HTTPError"
    /\ Len(calls) = 1 /\ FailedFetchAt(1)
    /\ Len(lines) = 2

\* a successful response that lacks the daily or the hourly arrays
LacksFields(d) ==
    \/ ~HasKey(d, "daily")
    \/ ~HasKey(d, "hourly")
    \/ \E k \in DailyKeys : ~HasKey(d.daily, k)
    \/ \E k \in {"time", "precipitation_probability"} : ~HasKey(d.hourly, k)

\* C9: summarize_day of a fetched payload that lacks provider fields returns
\* the unavailable sentinel without raising, and the run goes on: it does not
\* end with that call's error.
C9_MissingFieldsAreUnavailable ==
    \A i \in 1..Len(calls) :
        (calls[i].fn = "summarize_day" /\ LacksFields(calls[i].data)) =>
            /\ calls[i].outcome = Return(UNAVAILABLE)
            /\ ~(pc = "exit" /\ i = Len(calls))

\* the arguments that spell tomorrow, whatever the case and the surrounding
\* whitespace
TomorrowSpellings ==
    {<<"t", "o", "m", "o", "r", "r", "o", "w">>,
     <<"T", "O", "M", "O", "R", "R", "O", "W">>,
     <<"T", "o", "m", "o", "r", "r", "o", "w">>,
     <<" ", "t", "o", "m", "o", "r", "r", "o", "w">>,
     <<"t", "o", "m", "o", "r", "r", "o", "w", "\n">>,
     <<"\t", "T", "o", "m", "o", "r", "r", "o", "w", " ", " ">>}

\* C10: once run_forecast has chosen, the target is tomorrow's date and the
\* title tomorrow's exactly when the first argument spells tomorrow; with no
\* argument or any other value they are today's; every summarize_day call of
\* the run is given that one target date.
C10_ModeSelectsTarget ==
    lines # <<>> =>
        /\ IF Len(sys_argv) > 1 /\ sys_argv[2] \in TomorrowSpellings
           THEN target = (now \div 24) + 1 /\ lines[1][1] = TITLE_TOMORROW
           ELSE target = now \div 24 /\ lines[1][1] = TITLE_TODAY
        /\ \A k \in 1..Len(SummarizeCalls) : SummarizeCalls[k].target_date = target

\* C10 happens: the argument is tomorrow in mixed case between whitespace, and
\* both cities were summarised for tomorrow's date.
C10_Witness ==
    /\ Len(sys_argv) > 1
    /\ sys_argv[2] = <<"\t", "T", "o", "m", "o", "r", "r", "o", "w", " ", " ">>
    /\ target = (now \div 24) + 1
    /\ Len(SummarizeCalls) = 2
    /\ \A k \in 1..2 : SummarizeCalls[k].target_date = target

====
